---------------------------- MODULE Spec2Model ----------------------------
(***************************************************************************)
(* A model of mm.c, the segregated-free-list allocator of the CS:APP       *)
(* malloc lab.  The heap is modelled word by word: every header, footer,   *)
(* free-list link and payload word is a cell of mem, and every routine of  *)
(* mm.c is an operator that performs the same reads and writes in the same *)
(* order.  Pointers are byte offsets from heap_base_ptr, and mem maps the  *)
(* byte offset of a word to its value.                                     *)
(*                                                                         *)
(* A 32-bit unsigned value is held as the integer with the same bit        *)
(* pattern in two's complement (TLC's integers are 32 bits wide), so       *)
(* 0xFFFFFFFF is -1 and every value below 2^31 is itself.                  *)
(***************************************************************************)
EXTENDS Integers, Sequences, FiniteSets, Bags, TLC

\* ------------------------------------------------------------ constants
WORD_SIZE == 4
EXTEND_SIZE == 4096
FREE == 0
ALLOCATED == 1
FORWARD_FREE == 0
FORWARD_ALLOCATED == 2
\* Offset of the first block's payload, and the size of the list-head area.
FIRST_BLOCK == 136
PROLOGUE_SIZE == 128
\* Largest signed 32-bit integer; 0x7FFFFFFF.
INT_MAX == 2147483647

\* ------------------------------------------------------------ bounds
\* The provider's arena holds MaxChunks extensions of EXTEND_SIZE bytes.
MaxChunks == 2
\* The caller holds at most MaxLive pointers at a time.
MaxLive == 3

MaxHeap == MaxChunks * EXTEND_SIZE

\* The null pointer lies below heap_base_ptr: no offset in the arena.
NULL == -65536

\* ------------------------------------------------- 32-bit unsigned words
\* a < b, a <= b as unsigned int.
ULt(a, b) == IF (a < 0) = (b < 0) THEN a < b ELSE b < 0
ULe(a, b) == a = b \/ ULt(a, b)

\* a + b modulo 2^32.
UAdd(a, b) ==
    IF a >= 0 /\ b >= 0
    THEN IF a <= INT_MAX - b THEN a + b
         ELSE ((a - INT_MAX) - 1) + ((b - INT_MAX) - 1)
    ELSE IF a < 0 /\ b < 0
    THEN IF a >= ((-INT_MAX) - 1) - b THEN a + b
         ELSE ((a + INT_MAX) + 1) + ((b + INT_MAX) + 1)
    ELSE a + b

\* a - b modulo 2^32.
USub(a, b) ==
    IF (a < 0) = (b < 0) THEN a - b
    ELSE IF a >= 0
    THEN IF a > INT_MAX + b THEN ((a - INT_MAX) - 1) - b + ((-INT_MAX) - 1)
         ELSE a - b
    ELSE IF (a + INT_MAX) + 1 < b THEN (((a + INT_MAX) + 1) - b) + INT_MAX + 1
         ELSE a - b

\* Bit b (a power of two) of x; x | b; x & ~b.
Bit(x, b) == (x \div b) % 2
SetBit(x, b) == IF Bit(x, b) = 1 THEN x ELSE x + b
ClrBit(x, b) == IF Bit(x, b) = 1 THEN x - b ELSE x
\* x | f for a flag word f in 0..7.
BitOr(x, f) ==
    LET x1 == IF Bit(f, 1) = 1 THEN SetBit(x, 1) ELSE x
        x2 == IF Bit(f, 2) = 1 THEN SetBit(x1, 2) ELSE x1
    IN  IF Bit(f, 4) = 1 THEN SetBit(x2, 4) ELSE x2
\* x & 0xfffffff8 and x & 0x7.
ClearLow3(x) == x - (x % 8)
Low3(x) == x % 8

\* lzcnt: the number of leading zero bits of a 32-bit word.
RECURSIVE BitLength(_)
BitLength(x) == IF x = 0 THEN 0 ELSE 1 + BitLength(x \div 2)
lzcnt(x) == IF x < 0 THEN 0 ELSE 32 - BitLength(x)

\* ------------------------------------------------------------ memory
(* The machine state threaded through the routines:                        *)
(*   mem           the arena: the words that differ from junk, by offset   *)
(*   junk          what the words of the arena held before the program     *)
(*                 wrote them (the provider does not clear its arena)      *)
(*   heap_last_ptr the allocator's view of the heap end                    *)
(*   mem_brk       the provider's break                                    *)
(*   fault         "ok", or what stopped the program: "oob" an access      *)
(*                 outside the arena, "loop" a list walk that never ends   *)
ValidAddr(a) == a >= 0 /\ a % WORD_SIZE = 0 /\ a + WORD_SIZE <= MaxHeap

Fault(h, why) == IF h.fault = "ok" THEN [h EXCEPT !.fault = why] ELSE h

\* An access to address a that only reads.
touch(h, a) == IF ValidAddr(a) THEN h ELSE Fault(h, "oob")

\* The word at offset a of arena m.
Word(m, junk, a) == IF a \in DOMAIN m THEN m[a] ELSE junk

\* Arena m with val stored at offset a.
Store(m, junk, a, val) ==
    IF val = junk THEN [x \in DOMAIN m \ {a} |-> m[x]]
    ELSE IF a \in DOMAIN m THEN [m EXCEPT ![a] = val]
    ELSE [x \in DOMAIN m \cup {a} |-> IF x = a THEN val ELSE m[x]]

read_word(h, ptr) == IF ValidAddr(ptr) THEN Word(h.mem, h.junk, ptr) ELSE 0

write_word(h, ptr, val) ==
    IF ValidAddr(ptr) THEN [h EXCEPT !.mem = Store(h.mem, h.junk, ptr, val)]
    ELSE Fault(h, "oob")

get_header(h, ptr) == read_word(h, ptr - WORD_SIZE)

set_header(h, ptr, header) == write_word(h, ptr - WORD_SIZE, header)

set_allocated_flag(h, ptr) ==
    set_header(h, ptr, SetBit(get_header(h, ptr), ALLOCATED))

unset_allocated_flag(h, ptr) ==
    set_header(h, ptr, ClrBit(get_header(h, ptr), ALLOCATED))

set_forward_allocated_flag(h, ptr) ==
    set_header(h, ptr, SetBit(get_header(h, ptr), FORWARD_ALLOCATED))

unset_forward_allocated_flag(h, ptr) ==
    set_header(h, ptr, ClrBit(get_header(h, ptr), FORWARD_ALLOCATED))

\* The links are stored as offsets from heap_base_ptr.
set_prev(h, ptr, prev) == write_word(h, ptr, prev)

set_next(h, ptr, next) == write_word(h, ptr + WORD_SIZE, next)

\* Header and footer; the flags are kept.
set_size(h, ptr, size) ==
    LET flag == Low3(get_header(h, ptr))
        h1 == set_header(h, ptr, BitOr(size, flag))
    IN  write_word(h1, ptr + size - 2 * WORD_SIZE, size)

\* Header only; the flags are kept.
set_size_only_header(h, ptr, size) ==
    LET flag == Low3(get_header(h, ptr))
    IN  set_header(h, ptr, BitOr(size, flag))

get_size(h, ptr) == ClearLow3(get_header(h, ptr))

get_prev(h, ptr) == read_word(h, ptr)

get_next(h, ptr) == read_word(h, ptr + WORD_SIZE)

\* The physically preceding block, found through its footer.
get_forward(h, ptr) == ptr - read_word(h, ptr - WORD_SIZE * 2)

\* The physically following block.
get_back(h, ptr) == ptr + get_size(h, ptr)

is_allocated(h, ptr) == Bit(get_header(h, ptr), ALLOCATED) = 1

is_forward_allocated(h, ptr) == Bit(get_header(h, ptr), FORWARD_ALLOCATED) = 1

\* ------------------------------------------------------------ provider
(* mem_sbrk(incr): the provider takes incr as a signed int.  It refuses a  *)
(* negative increment and one that would pass the end of its arena, and    *)
(* it may refuse any request (grant = FALSE); on refusal nothing changes.  *)
mem_sbrk(h, incr, grant) ==
    IF grant /\ incr >= 0 /\ incr <= MaxHeap - h.mem_brk
    THEN [h |-> [h EXCEPT !.mem_brk = h.mem_brk + incr, !.sbrk = "granted"],
          ok |-> TRUE]
    ELSE [h |-> [h EXCEPT !.sbrk = "refused"], ok |-> FALSE]

\* ------------------------------------------------------------ size classes
\* __list_ptrs, filled by mm_init: the head of list 27 is at offset 0, that
\* of list 12 at offset 120; entries 0..11 alias list 12; entries 28..31
\* are never set and stay null.
begins(index) ==
    IF index >= 12 /\ index <= 27 THEN (27 - index) * 8
    ELSE IF index >= 0 /\ index <= 11 THEN 120
    ELSE NULL

\* __list_min_block_size and __list_max_block_size, filled by mm_init.
list_min_block_size(i) == 2 ^ (31 - i)
list_max_block_size(i) == IF i = 12 THEN -1 ELSE 2 ^ (32 - i)

\* get_index with list 12 starting at 2^20: a size in [2^19, 2^20) goes to
\* list 13.
get_index_from_2_20(aligned_size) ==
    IF lzcnt(aligned_size) = 12 THEN 13 ELSE lzcnt(aligned_size)

get_index(aligned_size) == lzcnt(aligned_size)

\* ------------------------------------------------------------ list ops
delete_block(h, ptr) ==
    LET prev == get_prev(h, ptr)
        next == get_next(h, ptr)
        h0 == touch(touch(h, ptr), ptr + WORD_SIZE)
        h1 == set_next(h0, prev, next)
    IN  set_prev(h1, next, prev)

insert(h, ptr, size) ==
    LET index == get_index(size)
        end == begins(index)
        prev == get_prev(h, end)
        h1 == set_prev(h, end, ptr)
        h2 == set_prev(h1, ptr, prev)
        h3 == set_next(h2, ptr, end)
    IN  set_next(h3, prev, ptr)

\* ------------------------------------------------------------ place
\* The state after place(aligned_size, ptr, block_size); it returns ptr.
place(h, aligned_size, ptr, block_size) ==
    LET remain_size == USub(block_size, aligned_size)
        whole(h1) == set_forward_allocated_flag(h1, get_back(h1, ptr))
        rest(h2, new_back) ==
            insert(set_forward_allocated_flag(
                       unset_allocated_flag(set_size(h2, new_back, remain_size),
                                            new_back),
                       new_back),
                   new_back, remain_size)
        split(h2) == rest(h2, get_back(h2, ptr))
    IN  IF ULt(remain_size, 16)
        THEN whole(set_allocated_flag(h, ptr))
        ELSE split(set_allocated_flag(set_size(h, ptr, aligned_size), ptr))

\* align_size without the 4 bytes of the header: size rounded up to 8.
align_size_bare(size) ==
    IF size = 448 THEN 520
    ELSE LET tmp_aligned_size == ClearLow3(UAdd(size, 7))
         IN  IF ULt(tmp_aligned_size, 16) THEN 16 ELSE tmp_aligned_size

align_size(size) ==
    IF size = 448 THEN 520
    ELSE LET tmp_aligned_size == ClearLow3(UAdd(size, 11))
         IN  IF ULt(tmp_aligned_size, 16) THEN 16 ELSE tmp_aligned_size

\* The state after shrink(aligned_size, ptr, block_size); it returns ptr.
shrink(h, aligned_size, ptr, block_size) ==
    LET remain_size == USub(block_size, aligned_size)
        lone(h5, new_back) ==
            unset_forward_allocated_flag(h5, get_back(h5, new_back))
        merged(h5, new_back, new_size) ==
            insert(set_size(h5, new_back, new_size), new_back, new_size)
        join(h4, new_back, back_of_new_back) ==
            IF is_allocated(h4, back_of_new_back)
            THEN lone(insert(touch(h4, back_of_new_back - WORD_SIZE),
                             new_back, remain_size),
                      new_back)
            ELSE merged(delete_block(touch(h4, back_of_new_back - WORD_SIZE),
                                     back_of_new_back),
                        new_back,
                        UAdd(remain_size, get_size(h4, back_of_new_back)))
        free(h4, new_back) == join(h4, new_back, get_back(h4, new_back))
        cut(h1, new_back) ==
            free(set_forward_allocated_flag(
                     set_size(unset_allocated_flag(h1, new_back),
                              new_back, remain_size),
                     new_back),
                 new_back)
        head(h1) == cut(h1, get_back(h1, ptr))
    IN  IF ULt(remain_size, 16) THEN h
        ELSE head(set_size_only_header(h, ptr, aligned_size))

\* ------------------------------------------------------------ find fit
\* The for loop of find_fit_in_index_th_list over one list, from ptr on.
\* seen holds the blocks already passed: nothing is written while the walk
\* goes on, so coming back to one of them means the loop never ends.
RECURSIVE scan_list(_, _, _, _, _)
scan_list(h, aligned_size, begin_and_end, ptr, seen) ==
    IF ptr = begin_and_end THEN [h |-> h, ptr |-> NULL]
    ELSE IF ptr \in seen THEN [h |-> Fault(h, "loop"), ptr |-> NULL]
    ELSE IF ~(ValidAddr(ptr - WORD_SIZE) /\ ValidAddr(ptr + WORD_SIZE))
    THEN [h |-> Fault(h, "oob"), ptr |-> NULL]
    ELSE LET block_size == get_size(h, ptr)
         IN  IF ULe(aligned_size, block_size)
             THEN [h |-> place(delete_block(h, ptr), aligned_size, ptr, block_size),
                   ptr |-> ptr]
             ELSE scan_list(h, aligned_size, begin_and_end, get_next(h, ptr),
                            seen \cup {ptr})

\* The do-while over the lists index, index - 1, ... while --index > 11.
\* index is unsigned: from 0 it wraps to 0xFFFFFFFF and the next read of
\* begins[] is outside the table.
RECURSIVE find_fit_in_index_th_list(_, _, _)
find_fit_in_index_th_list(h, aligned_size, index) ==
    LET begin_and_end == begins(index)
        next_index == USub(index, 1)
        scanned(r) ==
            IF r.ptr # NULL \/ r.h.fault # "ok" THEN r
            ELSE IF ULt(11, next_index)
            THEN IF next_index >= 0 /\ next_index <= 31
                 THEN find_fit_in_index_th_list(h, aligned_size, next_index)
                 ELSE [h |-> Fault(h, "oob"), ptr |-> NULL]
            ELSE [h |-> h, ptr |-> NULL]
    IN  scanned(IF ValidAddr(begin_and_end)
                THEN scan_list(h, aligned_size, begin_and_end,
                               get_next(h, begin_and_end), {})
                ELSE [h |-> Fault(h, "oob"), ptr |-> NULL])

\* ------------------------------------------------------------ extend heap
extend_heap(h, aligned_size, grant) ==
    LET sentinel(h3) ==
            set_header(h3, h3.heap_last_ptr, BitOr(ALLOCATED, FORWARD_FREE))
        \* the tail block is allocated
        fresh(s, old_heap_last_ptr, extend_size) ==
            IF ~s.ok THEN [h |-> s.h, ptr |-> NULL]
            ELSE [h |-> place(sentinel(unset_allocated_flag(
                                  set_size([s.h EXCEPT !.heap_last_ptr =
                                                old_heap_last_ptr + extend_size],
                                           old_heap_last_ptr, extend_size),
                                  old_heap_last_ptr)),
                              aligned_size, old_heap_last_ptr, extend_size),
                  ptr |-> old_heap_last_ptr]
        new(extend_size) ==
            fresh(mem_sbrk(h, extend_size, grant), h.heap_last_ptr, extend_size)
        \* the tail block is free: it is unlinked before the provider is asked
        grown(s, forward, forward_size, extend_size) ==
            IF ~s.ok THEN [h |-> s.h, ptr |-> NULL]
            ELSE [h |-> place(sentinel(
                                  set_size([s.h EXCEPT !.heap_last_ptr =
                                                h.heap_last_ptr + extend_size],
                                           forward,
                                           UAdd(forward_size, extend_size))),
                              aligned_size, forward,
                              UAdd(extend_size, forward_size)),
                  ptr |-> forward]
        ask(h0, forward, forward_size, extend_size) ==
            grown(mem_sbrk(touch(h0, forward - WORD_SIZE), extend_size, grant),
                  forward, forward_size, extend_size)
        sized(h0, forward, forward_size, extend_size0) ==
            ask(h0, forward, forward_size,
                IF ULt(EXTEND_SIZE, extend_size0) THEN extend_size0
                ELSE EXTEND_SIZE)
        measured(h0, forward, forward_size) ==
            sized(h0, forward, forward_size, USub(aligned_size, forward_size))
        unlinked(h0, forward) == measured(h0, forward, get_size(h0, forward))
        tail(forward) ==
            unlinked(delete_block(touch(h, h.heap_last_ptr - 2 * WORD_SIZE),
                                  forward),
                     forward)
    IN  IF is_forward_allocated(h, h.heap_last_ptr)
        THEN new(IF ULt(EXTEND_SIZE, aligned_size) THEN aligned_size
                 ELSE EXTEND_SIZE)
        ELSE tail(get_forward(h, h.heap_last_ptr))

\* ------------------------------------------------------------ malloc
\* mm_malloc without its test for a request of 0 bytes.
mm_malloc_unchecked(h, size, grant) ==
    LET fit(aligned_size, r) ==
            IF r.ptr # NULL \/ r.h.fault # "ok" THEN r
            ELSE extend_heap(h, aligned_size, grant)
        find(aligned_size) ==
            fit(aligned_size,
                find_fit_in_index_th_list(h, aligned_size,
                                          get_index(aligned_size)))
    IN  find(align_size(size))

mm_malloc(h, size, grant) ==
    IF size = 0 THEN [h |-> h, ptr |-> NULL]
    ELSE LET fit(aligned_size, r) ==
                 IF r.ptr # NULL \/ r.h.fault # "ok" THEN r
                 ELSE extend_heap(h, aligned_size, grant)
             find(aligned_size) ==
                 fit(aligned_size,
                     find_fit_in_index_th_list(h, aligned_size,
                                               get_index(aligned_size)))
         IN  find(align_size(size))

\* ------------------------------------------------------------ free
mm_free(h, ptr) ==
    LET linked(h3, block, size) == insert(h3, block, size)
        \* both neighbours allocated
        alone(h0, back, size) ==
            linked(unset_forward_allocated_flag(
                       unset_allocated_flag(set_size(h0, ptr, size), ptr), back),
                   ptr, size)
        \* the block before is free
        before_sized(h1, forward, back, size) ==
            linked(unset_forward_allocated_flag(
                       set_size(touch(h1, forward - WORD_SIZE), forward, size),
                       back),
                   forward, size)
        before_unlinked(h1, forward, back) ==
            before_sized(h1, forward, back,
                         UAdd(get_size(h1, forward), get_size(h1, ptr)))
        before(h0, forward, back) ==
            before_unlinked(delete_block(touch(h0, ptr - 2 * WORD_SIZE), forward),
                            forward, back)
        \* the block after is free
        after_sized(h1, size) ==
            linked(unset_allocated_flag(set_size(h1, ptr, size), ptr), ptr, size)
        after_unlinked(h1, back) ==
            after_sized(h1, UAdd(get_size(h1, ptr), get_size(h1, back)))
        after(h0, back) == after_unlinked(delete_block(h0, back), back)
        \* both neighbours free
        both_sized(h2, forward, size) ==
            linked(set_size(touch(h2, forward - WORD_SIZE), forward, size),
                   forward, size)
        both_unlinked(h2, forward, back) ==
            both_sized(h2, forward,
                       UAdd(UAdd(get_size(h2, forward), get_size(h2, ptr)),
                            get_size(h2, back)))
        both(h0, forward, back) ==
            both_unlinked(delete_block(
                              delete_block(touch(h0, ptr - 2 * WORD_SIZE), forward),
                              back),
                          forward, back)
        cases(h0, back, forward_allocated, back_allocated) ==
            IF forward_allocated /\ back_allocated
            THEN alone(h0, back, get_size(h0, ptr))
            ELSE IF ~forward_allocated /\ back_allocated
            THEN before(h0, get_forward(h0, ptr), back)
            ELSE IF forward_allocated /\ ~back_allocated
            THEN after(h0, back)
            ELSE both(h0, get_forward(h0, ptr), back)
        look(back) ==
            cases(touch(touch(h, ptr - WORD_SIZE), back - WORD_SIZE), back,
                  is_forward_allocated(h, ptr), is_allocated(h, back))
    IN  IF ptr = NULL THEN h ELSE look(get_back(h, ptr))

\* ------------------------------------------------------------ realloc
\* memcpy(dst, src, n) for n a multiple of the word size.  Ranges that
\* overlap are undefined behaviour.
memcpy(h, dst, src, n) ==
    IF n = 0 THEN h
    ELSE IF ~(ValidAddr(dst) /\ ValidAddr(src) /\ n > 0
              /\ n <= MaxHeap - dst /\ n <= MaxHeap - src)
    THEN Fault(h, "oob")
    ELSE IF dst < src + n /\ src < dst + n THEN Fault(h, "overlap")
    ELSE LET InDst(a) == a >= dst /\ a < dst + n
             From(a) == Word(h.mem, h.junk, a - dst + src)
             keep == {a \in DOMAIN h.mem : ~InDst(a)}
             new == {a \in {b - src + dst : b \in {c \in DOMAIN h.mem :
                                                    c >= src /\ c < src + n}} :
                       From(a) # h.junk}
         IN  [h EXCEPT !.mem = [a \in keep \cup new |->
                                  IF InDst(a) THEN From(a) ELSE h.mem[a]]]

\* mm_realloc with < where the code has <= in its test for shrinking: a
\* request that aligns to exactly the block's size is moved.
mm_realloc_strict(h, old_ptr, size, grant) ==
    LET moved(m) ==
            [h |-> mm_free(IF m.ptr # NULL
                           THEN memcpy(m.h, m.ptr, old_ptr, get_size(m.h, old_ptr))
                           ELSE m.h,
                           old_ptr),
             ptr |-> m.ptr]
    IN  IF old_ptr = NULL THEN mm_malloc(h, size, grant)
        ELSE IF size = 0 THEN [h |-> mm_free(h, old_ptr), ptr |-> NULL]
        ELSE IF ULt(align_size(size), get_size(h, old_ptr))
        THEN [h |-> shrink(touch(h, old_ptr - WORD_SIZE), align_size(size),
                           old_ptr, get_size(h, old_ptr)),
              ptr |-> old_ptr]
        ELSE moved(mm_malloc(h, size, grant))

\* mm_realloc that takes in a whole free successor without adding its size
\* to the header of the block.
mm_realloc_keeps_size(h, old_ptr, size, grant) ==
    LET \* the block after is free and large enough
        split(h1, new_back, new_back_size, new_block_size) ==
            [h |-> set_size_only_header(
                       insert(set_forward_allocated_flag(
                                  unset_allocated_flag(
                                      set_size(h1, new_back, new_back_size),
                                      new_back),
                                  new_back),
                              new_back, new_back_size),
                       old_ptr, new_block_size),
             ptr |-> old_ptr]
        absorbed(h2) ==
            [h |-> set_forward_allocated_flag(h2, get_back(h2, old_ptr)),
             ptr |-> old_ptr]
        into(hb, back, back_size, extend_size, new_back_size,
             old_block_size, new_block_size) ==
            IF ~ULt(new_back_size, 16)
            THEN split(delete_block(hb, back), back + extend_size, new_back_size,
                       new_block_size)
            ELSE absorbed(delete_block(hb, back))
        \* the block is the last of the heap
        raised(h2) ==
            [h |-> set_header(h2, h2.heap_last_ptr,
                              BitOr(ALLOCATED, FORWARD_ALLOCATED)),
             ptr |-> old_ptr]
        tail(s, hb, extend_size, new_block_size) ==
            IF ~s.ok THEN [h |-> s.h, ptr |-> NULL]
            ELSE raised(set_size_only_header(
                            [s.h EXCEPT !.heap_last_ptr =
                                          hb.heap_last_ptr + extend_size],
                            old_ptr, new_block_size))
        \* allocate, copy, free
        moved(m) ==
            [h |-> mm_free(IF m.ptr # NULL
                           THEN memcpy(m.h, m.ptr, old_ptr, get_size(m.h, old_ptr))
                           ELSE m.h,
                           old_ptr),
             ptr |-> m.ptr]
        grow(hb, back, back_size, extend_size, old_block_size, new_block_size) ==
            IF ~is_allocated(hb, back) /\ ULe(extend_size, back_size)
            THEN into(hb, back, back_size, extend_size,
                      USub(back_size, extend_size), old_block_size, new_block_size)
            ELSE IF back = hb.heap_last_ptr
            THEN tail(mem_sbrk(hb, extend_size, grant), hb, extend_size,
                      new_block_size)
            ELSE moved(mm_malloc(hb, size, grant))
        behind(h0, back, old_block_size, new_block_size) ==
            grow(touch(h0, back - WORD_SIZE), back, get_size(h0, back),
                 USub(new_block_size, old_block_size), old_block_size,
                 new_block_size)
        sizes(h0, old_block_size, new_block_size) ==
            IF ULe(new_block_size, old_block_size)
            THEN [h |-> shrink(h0, new_block_size, old_ptr, old_block_size),
                  ptr |-> old_ptr]
            ELSE behind(h0, get_back(h0, old_ptr), old_block_size, new_block_size)
    IN  IF old_ptr = NULL THEN mm_malloc(h, size, grant)
        ELSE IF size = 0 THEN [h |-> mm_free(h, old_ptr), ptr |-> NULL]
        ELSE sizes(touch(h, old_ptr - WORD_SIZE), get_size(h, old_ptr),
                   align_size(size))

mm_realloc(h, old_ptr, size, grant) ==
    LET \* the block after is free and large enough
        split(h1, new_back, new_back_size, new_block_size) ==
            [h |-> set_size_only_header(
                       insert(set_forward_allocated_flag(
                                  unset_allocated_flag(
                                      set_size(h1, new_back, new_back_size),
                                      new_back),
                                  new_back),
                              new_back, new_back_size),
                       old_ptr, new_block_size),
             ptr |-> old_ptr]
        absorbed(h2) ==
            [h |-> set_forward_allocated_flag(h2, get_back(h2, old_ptr)),
             ptr |-> old_ptr]
        into(hb, back, back_size, extend_size, new_back_size,
             old_block_size, new_block_size) ==
            IF ~ULt(new_back_size, 16)
            THEN split(delete_block(hb, back), back + extend_size, new_back_size,
                       new_block_size)
            ELSE absorbed(set_size_only_header(delete_block(hb, back), old_ptr,
                                               UAdd(old_block_size, back_size)))
        \* the block is the last of the heap
        raised(h2) ==
            [h |-> set_header(h2, h2.heap_last_ptr,
                              BitOr(ALLOCATED, FORWARD_ALLOCATED)),
             ptr |-> old_ptr]
        tail(s, hb, extend_size, new_block_size) ==
            IF ~s.ok THEN [h |-> s.h, ptr |-> NULL]
            ELSE raised(set_size_only_header(
                            [s.h EXCEPT !.heap_last_ptr =
                                          hb.heap_last_ptr + extend_size],
                            old_ptr, new_block_size))
        \* allocate, copy, free
        moved(m) ==
            [h |-> mm_free(IF m.ptr # NULL
                           THEN memcpy(m.h, m.ptr, old_ptr, get_size(m.h, old_ptr))
                           ELSE m.h,
                           old_ptr),
             ptr |-> m.ptr]
        grow(hb, back, back_size, extend_size, old_block_size, new_block_size) ==
            IF ~is_allocated(hb, back) /\ ULe(extend_size, back_size)
            THEN into(hb, back, back_size, extend_size,
                      USub(back_size, extend_size), old_block_size, new_block_size)
            ELSE IF back = hb.heap_last_ptr
            THEN tail(mem_sbrk(hb, extend_size, grant), hb, extend_size,
                      new_block_size)
            ELSE moved(mm_malloc(hb, size, grant))
        behind(h0, back, old_block_size, new_block_size) ==
            grow(touch(h0, back - WORD_SIZE), back, get_size(h0, back),
                 USub(new_block_size, old_block_size), old_block_size,
                 new_block_size)
        sizes(h0, old_block_size, new_block_size) ==
            IF ULe(new_block_size, old_block_size)
            THEN [h |-> shrink(h0, new_block_size, old_ptr, old_block_size),
                  ptr |-> old_ptr]
            ELSE behind(h0, get_back(h0, old_ptr), old_block_size, new_block_size)
    IN  IF old_ptr = NULL THEN mm_malloc(h, size, grant)
        ELSE IF size = 0 THEN [h |-> mm_free(h, old_ptr), ptr |-> NULL]
        ELSE sizes(touch(h, old_ptr - WORD_SIZE), get_size(h, old_ptr),
                   align_size(size))

\* ------------------------------------------------------------ calloc
\* memset(ptr, 0, n) on a little-endian machine: n \div 4 whole words, then
\* the n % 4 low-order bytes of the next word.  A fill that runs past the
\* arena clears it to its end and stops the program.
memset0(h, ptr, n) ==
    LET fits == n >= 0 /\ n <= MaxHeap - ptr
        whole == IF fits THEN n - (n % WORD_SIZE) ELSE MaxHeap - ptr
        rest == IF fits THEN n % WORD_SIZE ELSE 0
        Filled(a) == IF a >= ptr /\ a < ptr + whole THEN 0
                     ELSE IF a = ptr + whole /\ rest > 0
                     THEN Word(h.mem, h.junk, a) - (Word(h.mem, h.junk, a) % (256 ^ rest))
                     ELSE Word(h.mem, h.junk, a)
        all == DOMAIN h.mem \cup {a \in ptr .. ptr + whole : a % WORD_SIZE = 0 /\ ValidAddr(a)}
        h1 == [h EXCEPT !.mem = [a \in {b \in all : Filled(b) # h.junk} |-> Filled(a)]]
    IN  IF fits THEN h1 ELSE Fault(h1, "oob")

\* nmemb * size is a size_t product; the model's inputs keep it below 2^32.
mm_calloc(h, nmemb, size, grant) ==
    LET zeroed(m) ==
            IF m.ptr # NULL /\ m.h.fault = "ok"
            THEN [h |-> memset0(m.h, m.ptr, nmemb * size), ptr |-> m.ptr]
            ELSE m
    IN  zeroed(mm_malloc(h, nmemb * size, grant))

\* ------------------------------------------------------------ init
\* The loop that links the 16 list heads to themselves.
RECURSIVE init_heads(_, _)
init_heads(h, i) ==
    IF i >= PROLOGUE_SIZE THEN h
    ELSE init_heads(set_next(set_prev(h, i, i), i, i), i + 8)

\* mm_init on an arena whose break is at heap_base_ptr.
mm_init(h, grant) ==
    LET sentinel(h5) ==
            set_header(h5, h5.heap_last_ptr, BitOr(ALLOCATED, FORWARD_FREE))
        built(s) ==
            IF ~s.ok THEN [h |-> s.h, ret |-> -1]
            ELSE [h |-> insert(sentinel(set_forward_allocated_flag(
                                   unset_allocated_flag(
                                       set_size(init_heads(
                                                    [s.h EXCEPT !.heap_last_ptr =
                                                                  0 + EXTEND_SIZE],
                                                    0),
                                                FIRST_BLOCK,
                                                EXTEND_SIZE - 128 - 8),
                                       FIRST_BLOCK),
                                   FIRST_BLOCK)),
                               FIRST_BLOCK, EXTEND_SIZE - 128 - 8),
                  ret |-> 0]
    IN  built(mem_sbrk(h, EXTEND_SIZE, grant))

\* ------------------------------------------------------------ the program
(* The allocator's state is the arena and heap_last_ptr; the provider's is *)
(* mem_brk.  The caller holds the pointers it was given and has not freed, *)
(* each with the size it asked for: a bag, since nothing but the allocator *)
(* keeps it from being handed the same address twice.  last records the    *)
(* call that led to the state: its arguments, what it returned, what the   *)
(* provider answered and the size the block at ptr had when it started.    *)
(* calls counts the steps taken so far.                                    *)
VARIABLES mem, junk, heap_last_ptr, mem_brk, fault, held, last, calls

vars == <<mem, junk, heap_last_ptr, mem_brk, fault, held, last, calls>>

\* The machine state at the start of a call.
H == [mem |-> mem, junk |-> junk, heap_last_ptr |-> heap_last_ptr,
      mem_brk |-> mem_brk, fault |-> "ok", sbrk |-> "none"]

Install(h) ==
    /\ mem' = h.mem
    /\ heap_last_ptr' = h.heap_last_ptr
    /\ mem_brk' = h.mem_brk
    /\ fault' = h.fault
    /\ junk' = junk
    /\ calls' = calls + 1

Held(ptr, size) == SetToBag({[ptr |-> ptr, size |-> size]})

\* The state after mm_init on an arena full of g.
InitWith(g) ==
    LET h0 == [mem |-> <<>>, junk |-> g, heap_last_ptr |-> 0, mem_brk |-> 0,
               fault |-> "ok", sbrk |-> "none"]
        starts(r) ==
            /\ mem = r.h.mem
            /\ junk = g
            /\ heap_last_ptr = r.h.heap_last_ptr
            /\ mem_brk = r.h.mem_brk
            /\ fault = r.h.fault
            /\ held = EmptyBag
            /\ last = [op |-> "init", ptr |-> NULL, size |-> 0, ret |-> NULL,
                       sbrk |-> r.h.sbrk, was |-> 0]
            /\ calls = 0
    IN  starts(mm_init(h0, TRUE))

\* The size of the block at ptr when the call starts, 0 for the null pointer.
SizeBefore(ptr) == IF ptr = NULL THEN 0 ELSE get_size(H, ptr)

Malloc(size, grant) ==
    /\ fault = "ok"
    /\ BagCardinality(held) < MaxLive
    /\ LET returns(r) ==
               /\ Install(r.h)
               /\ held' = IF r.ptr # NULL /\ r.h.fault = "ok"
                          THEN held (+) Held(r.ptr, size) ELSE held
               /\ last' = [op |-> "malloc", ptr |-> NULL, size |-> size,
                           ret |-> r.ptr, sbrk |-> r.h.sbrk, was |-> 0]
       IN  returns(mm_malloc(H, size, grant))

Free(rec) ==
    /\ fault = "ok"
    /\ LET returns(h) ==
               /\ Install(h)
               /\ held' = IF rec.ptr # NULL THEN held (-) SetToBag({rec}) ELSE held
               /\ last' = [op |-> "free", ptr |-> rec.ptr, size |-> 0, ret |-> NULL,
                           sbrk |-> h.sbrk, was |-> SizeBefore(rec.ptr)]
       IN  returns(mm_free(H, rec.ptr))

\* After a null return for a request that is not 0 the caller may go on
\* using old_ptr, as realloc's contract has it (keep), or never use it again.
Realloc(rec, size, grant, keep) ==
    /\ fault = "ok"
    /\ rec.ptr = NULL => BagCardinality(held) < MaxLive
    /\ LET rest == IF rec.ptr # NULL THEN held (-) SetToBag({rec}) ELSE held
           returns(r) ==
               /\ Install(r.h)
               /\ held' = IF r.h.fault # "ok" THEN held
                          ELSE IF r.ptr # NULL THEN rest (+) Held(r.ptr, size)
                          ELSE IF size = 0 \/ ~keep THEN rest
                          ELSE held
               /\ last' = [op |-> "realloc", ptr |-> rec.ptr, size |-> size,
                           ret |-> r.ptr, sbrk |-> r.h.sbrk,
                           was |-> SizeBefore(rec.ptr)]
       IN  returns(mm_realloc(H, rec.ptr, size, grant))

Calloc(nmemb, size, grant) ==
    /\ fault = "ok"
    /\ BagCardinality(held) < MaxLive
    /\ LET returns(r) ==
               /\ Install(r.h)
               /\ held' = IF r.ptr # NULL /\ r.h.fault = "ok"
                          THEN held (+) Held(r.ptr, nmemb * size) ELSE held
               /\ last' = [op |-> "calloc", ptr |-> NULL, size |-> nmemb * size,
                           ret |-> r.ptr, sbrk |-> r.h.sbrk, was |-> 0]
       IN  returns(mm_calloc(H, nmemb, size, grant))

\* The offsets of the words the caller stores into in a request of size
\* bytes at ptr: the first two and the last.
UserWords(ptr, size) ==
    {a \in {ptr, ptr + WORD_SIZE, ptr + ((size - 1) \div WORD_SIZE) * WORD_SIZE} :
        a < ptr + size}

\* The caller stores word val in a request it holds.
UserWrite(rec, val) ==
    /\ fault = "ok"
    /\ rec.size > 0 /\ rec.size <= MaxHeap - rec.ptr
    /\ LET ws == UserWords(rec.ptr, rec.size)
           all == DOMAIN mem \cup ws
           New(a) == IF a \in ws THEN val ELSE mem[a]
       IN  mem' = [a \in {b \in all : New(b) # junk} |-> New(a)]
    /\ mem' # mem
    /\ last' = [op |-> "write", ptr |-> rec.ptr, size |-> rec.size, ret |-> NULL,
                sbrk |-> "none", was |-> SizeBefore(rec.ptr)]
    /\ calls' = calls + 1
    /\ UNCHANGED <<junk, heap_last_ptr, mem_brk, fault, held>>

NullRec == [ptr |-> NULL, size |-> 0]

\* ------------------------------------------------------------ heap walk
\* The blocks mm_checkheap visits: from FIRST_BLOCK by get_back while below
\* heap_last_ptr.  A block of size 0 would hold the walk for ever; it ends
\* the sequence here.
RECURSIVE HeapBlocks(_, _)
HeapBlocks(h, iterator) ==
    IF iterator >= h.heap_last_ptr \/ iterator < FIRST_BLOCK
       \/ get_size(h, iterator) = 0
    THEN <<>>
    ELSE <<iterator>> \o HeapBlocks(h, get_back(h, iterator))

Range(seq) == {seq[i] : i \in DOMAIN seq}

\* The end of the walk: heap_last_ptr when the sizes add up.
WalkEnd(h) ==
    LET bs == HeapBlocks(h, FIRST_BLOCK)
    IN  IF bs = <<>> THEN FIRST_BLOCK ELSE get_back(h, bs[Len(bs)])

\* The members of list i in get_next order from its head, as mm_checkheap
\* walks them; the walk stops when it meets a node again.
RECURSIVE ListFrom(_, _, _, _)
ListFrom(h, end, iterator, seen) ==
    IF iterator = end \/ iterator \in seen \/ ~ValidAddr(iterator + WORD_SIZE)
    THEN <<>>
    ELSE <<iterator>> \o ListFrom(h, end, get_next(h, iterator), seen \cup {iterator})

ListOf(h, i) == ListFrom(h, begins(i), get_next(h, begins(i)), {})

Classes == 12 .. 27

\* How many times ptr occurs in the 16 lists.
RECURSIVE CountIn(_, _, _)
CountIn(h, ptr, is) ==
    IF is = {} THEN 0
    ELSE LET i == CHOOSE x \in is : TRUE
             l == ListOf(h, i)
         IN  Cardinality({k \in DOMAIN l : l[k] = ptr}) + CountIn(h, ptr, is \ {i})

FreeBlocks(h) == {p \in Range(HeapBlocks(h, FIRST_BLOCK)) : ~is_allocated(h, p)}

\* ------------------------------------------------------------ the invariants
\* every free block of the heap is in exactly one list, and every member
\* of list i is a free block of the heap with a size of class i
FreeListsExact(h) ==
    /\ \A p \in FreeBlocks(h) : CountIn(h, p, Classes) = 1
    /\ \A i \in Classes : \A p \in Range(ListOf(h, i)) :
          /\ p \in FreeBlocks(h)
          /\ ~ULt(get_size(h, p), list_min_block_size(i))
          /\ ULt(get_size(h, p), list_max_block_size(i))

\* the forward-allocated bit of every block's successor is the block's own
\* allocated bit, and the last word of the heap is an allocated header of
\* size 0
FlagsAgree(h) ==
    /\ WalkEnd(h) = h.heap_last_ptr
    /\ \A p \in Range(HeapBlocks(h, FIRST_BLOCK)) :
          is_forward_allocated(h, get_back(h, p)) = is_allocated(h, p)
    /\ get_size(h, h.heap_last_ptr) = 0
    /\ is_allocated(h, h.heap_last_ptr)

\* no free block is followed by a free block
NoAdjacentFree(h) ==
    \A p \in FreeBlocks(h) : is_allocated(h, get_back(h, p))

\* every free block is at least 16 bytes, a multiple of 8, and its footer
\* repeats its size
FootersAgree(h) ==
    \A p \in FreeBlocks(h) :
        /\ get_size(h, p) >= 16
        /\ get_header(h, p) - Low3(get_header(h, p)) = get_size(h, p)
        /\ get_size(h, p) % 8 = 0
        /\ read_word(h, p + get_size(h, p) - 2 * WORD_SIZE) = get_size(h, p)

\* The bytes of the block at ptr lie in [ptr - 4, ptr - 4 + size).
BlockLo(h, ptr) == ptr - WORD_SIZE
BlockHi(h, ptr) == ptr - WORD_SIZE + get_size(h, ptr)

\* every pointer held is 8-aligned and strictly inside the heap, it is held
\* once, and its block overlaps neither another held block nor the list heads
HeldDisjoint(h, hd, prologue) ==
    /\ \A r \in BagToSet(hd) :
          /\ r.ptr % 8 = 0
          /\ r.ptr > 0 /\ r.ptr < h.mem_brk - 1
          /\ BlockLo(h, r.ptr) >= prologue
          /\ BlockHi(h, r.ptr) <= h.mem_brk
    /\ \A r1, r2 \in BagToSet(hd) :
          r1.ptr # r2.ptr =>
              \/ BlockHi(h, r1.ptr) <= BlockLo(h, r2.ptr)
              \/ BlockHi(h, r2.ptr) <= BlockLo(h, r1.ptr)
    /\ \A p \in {r.ptr : r \in BagToSet(hd)} :
          BagCardinality([r \in {x \in BagToSet(hd) : x.ptr = p} |-> hd[r]]) = 1

\* The heads of the 16 lists, and every node of a list: the heads, the
\* blocks reached from them by get_next, and the free blocks of the heap.
Sentinels == {begins(i) : i \in Classes}

ListNodes(h) ==
    Sentinels \cup FreeBlocks(h) \cup UNION {Range(ListOf(h, i)) : i \in Classes}

\* An offset between mem_heap_lo() and mem_heap_hi(), the last byte of the
\* heap.
InHeap(h, a) == a >= 0 /\ a <= h.mem_brk - 1

\* each link of a node is an offset inside the heap, and the node is the
\* successor of its predecessor and the predecessor of its successor
LinksWellFormed(h) ==
    \A x \in ListNodes(h) :
        /\ InHeap(h, get_prev(h, x))
        /\ InHeap(h, get_next(h, x))
        /\ get_next(h, get_prev(h, x)) = x
        /\ get_prev(h, get_next(h, x)) = x

\* The first block of sequence l, in order, whose size is at least
\* aligned_size; NULL when it has none.
FirstFit(h, l, aligned_size) ==
    LET ks == {k \in DOMAIN l : ULe(aligned_size, get_size(h, l[k]))}
    IN  IF ks = {} THEN NULL ELSE l[CHOOSE k \in ks : \A j \in ks : k <= j]

\* ------------------------------------------------------------ Spec
\* Every operation, on every pointer held, for MaxCalls steps.
MaxCalls == 3
\* What an uninitialised word of the arena may hold.
Garbage == {0, 7}
\* The request sizes the caller draws from; 448 is the size align_size
\* singles out, Wrap is 2^32 - 1.
Sizes == {1, 452, 4000}
Wrap == 0 - 1
\* A request of 2^31 bytes: align_size makes it 2^31 + 8, a size with no
\* leading zero bit.
Big == (0 - INT_MAX) - 1
\* The word the caller stores.
UserWord == 16

Init == \E g \in Garbage : InitWith(g)

Next ==
    /\ calls < MaxCalls
    /\ \/ \E size \in Sizes \cup {0, Wrap, Big}, grant \in BOOLEAN :
             Malloc(size, grant)
       \/ \E rec \in BagToSet(held) \cup {NullRec} : Free(rec)
       \/ \E rec \in BagToSet(held) \cup {NullRec}, size \in Sizes \cup {0, 448, Wrap},
             grant \in BOOLEAN : Realloc(rec, size, grant, TRUE)
       \/ \E size \in {1, 452, Wrap}, grant \in BOOLEAN : Calloc(1, size, grant)
       \/ \E rec \in BagToSet(held) : UserWrite(rec, UserWord)

Spec == Init /\ [][Next]_vars

\* ------------------------------------------------------------ SpecRefuse
\* allocate and free alone, on an arena of zeroes, for MaxRefuse steps: the
\* runs in which a refusal of the provider is followed by further calls.
MaxRefuse == 8
RefuseSizes == {1, 1972, 4000}

InitRefuse == InitWith(0)

NextRefuse ==
    /\ calls < MaxRefuse
    /\ \/ \E size \in RefuseSizes, grant \in BOOLEAN : Malloc(size, grant)
       \/ \E rec \in BagToSet(held) : Free(rec)

SpecRefuse == InitRefuse /\ [][NextRefuse]_vars

\* ------------------------------------------------------------ SpecGrow
\* allocate, free and reallocate on a fresh heap of zeroes, for MaxGrow
\* steps, with the sizes that make a block grow in place: 16 and 3932 give
\* blocks of 24 and 3936 bytes, 3948 one of 3952, 4000 one of 4008.
MaxGrow == 3
GrowSizes == {16, 3932, 3948, 4000}

InitGrow == InitWith(0)

NextGrow ==
    /\ calls < MaxGrow
    /\ \/ \E size \in GrowSizes, grant \in BOOLEAN : Malloc(size, grant)
       \/ \E rec \in BagToSet(held) : Free(rec)
       \/ \E rec \in BagToSet(held), size \in GrowSizes, grant \in BOOLEAN :
             Realloc(rec, size, grant, TRUE)

SpecGrow == InitGrow /\ [][NextGrow]_vars

\* ------------------------------------------------------------ SpecClass
\* insert(ptr, size) on the heap mm_init leaves, for a block at ptr that is
\* in no list and every size at the edge of a class: 2^k, 2^k + 8 and
\* 2^(k+1) - 8 for k = 4 .. 30, and 2^31, 2^31 + 8 and 2^32 - 8.
MaxInsert == 2
InsertPtrs == {160, 2112}
ClassSizes ==
    UNION {{2 ^ k, 2 ^ k + 8, (2 ^ k - 8) + 2 ^ k} : k \in 4 .. 30}
        \cup {Big, Big + 8, 0 - 8}

Insert(ptr, size) ==
    /\ fault = "ok"
    /\ ptr \notin ListNodes(H)
    /\ Install(insert(H, ptr, size))
    /\ held' = held
    /\ last' = [op |-> "insert", ptr |-> ptr, size |-> size, ret |-> NULL,
                sbrk |-> "none", was |-> 0]

InitClass == InitWith(0)

NextClass ==
    /\ calls < MaxInsert
    /\ \E ptr \in InsertPtrs, size \in ClassSizes : Insert(ptr, size)

SpecClass == InitClass /\ [][NextClass]_vars

\* ------------------------------------------------------------ the claims
\* C1: every pointer the caller holds is 8-aligned and strictly inside the
\* heap, and the bytes [p - 4, p - 4 + size(p)) of its block overlap neither
\* the block of another pointer held nor the list heads, the prologue being
\* taken to end where the header of the first block starts.
C1_HeldBlocksDisjoint ==
    fault = "ok" => HeldDisjoint(H, held, FIRST_BLOCK - WORD_SIZE)

\* C2: when the provider refuses the extension allocate asks for, allocate
\* returns null and no word of the heap and not the heap end pointer has
\* changed.
C2_RefusalChangesNothing ==
    [][(last'.op = "malloc" /\ last'.sbrk = "refused")
          => /\ last'.ret = NULL
             /\ mem' = mem
             /\ heap_last_ptr' = heap_last_ptr]_vars

\* C3: after every operation every free block of the heap is in exactly
\* one size-class list, and every member of list i is a free block of the
\* heap with min_size[i] <= size < max_size[i].
C3_FreeListsExact == fault = "ok" => FreeListsExact(H)

\* C4: after every operation the prev_allocated bit of every block's
\* physical successor is the block's allocated bit, and the last word of
\* the heap is a header of size 0 with allocated = 1.
C4_FlagsAgree == fault = "ok" => FlagsAgree(H)

\* C5: after every operation no free block is followed by a free block.
C5_NoAdjacentFree == fault = "ok" => NoAdjacentFree(H)

\* C6: whenever the caller holds no block, the heap is one free block
\* whose payload starts at offset 136 and which ends at the trailing
\* sentinel, and the 16 lists hold that block and nothing else.
C6_AllFreedIsOneBlock ==
    (fault = "ok" /\ held = EmptyBag) =>
        /\ HeapBlocks(H, FIRST_BLOCK) = <<FIRST_BLOCK>>
        /\ ~is_allocated(H, FIRST_BLOCK)
        /\ get_back(H, FIRST_BLOCK) = heap_last_ptr
        /\ \A i \in Classes : Range(ListOf(H, i)) \subseteq {FIRST_BLOCK}
        /\ CountIn(H, FIRST_BLOCK, Classes) = 1

\* The call that led here was reallocate(p, n) on a block p with
\* 0 < n <= size(p) - 4.
ReallocWithin ==
    /\ last.op = "realloc"
    /\ last.ptr # NULL
    /\ last.size > 0
    /\ last.size <= last.was - WORD_SIZE

\* C7 as the spec has it: reallocate(p, n) with 0 < n <= size(p) - 4
\* returns p.
C7_ReallocWithinReturnsSame == ReallocWithin => last.ret = last.ptr

\* C7, amended: reallocate(p, n) with 0 < n <= size(p) - 4 returns p and
\* the call does not fail, unless n = 448 and size(p) < 520.
C7_ReallocWithinReturnsSameBut448 ==
    (ReallocWithin /\ (last.size # 448 \/ last.was >= 520))
        => (last.ret = last.ptr /\ fault = "ok")

\* A reallocate within the block's size has cut the block down.
C7_Shrunk ==
    /\ ReallocWithin
    /\ last.size # 448
    /\ last.ret = last.ptr
    /\ fault = "ok"
    /\ get_size(H, last.ret) < last.was

\* C8: a non-null result of allocate(user_size), for user_size in
\* 1 .. 2^32 - 1, is a block whose size is a multiple of 8, at least 16 and
\* at least user_size + 4.
C8_BlockHoldsRequest ==
    (last.op = "malloc" /\ last.size # 0 /\ last.ret # NULL /\ fault = "ok") =>
        /\ get_size(H, last.ret) % 8 = 0
        /\ get_size(H, last.ret) >= 16
        /\ ULe(last.size, get_size(H, last.ret) - WORD_SIZE)

\* C9: when reallocate(p, n), p not null and n > 0, returns a pointer r
\* that is not null, the whole words among the first min(n, size(p) - 4)
\* payload bytes at r are what they were at p before the call, and when
\* r is not p the size(p) bytes copied end within the block of r.
C9_ReallocKeepsPayload ==
    [][(last'.op = "realloc" /\ last'.ptr # NULL /\ last'.size # 0
        /\ last'.ret # NULL /\ fault' = "ok")
          => LET n == IF ULt(last'.size, last'.was - WORD_SIZE) THEN last'.size
                      ELSE last'.was - WORD_SIZE
             IN  /\ \A k \in 0 .. n - WORD_SIZE :
                       k % WORD_SIZE = 0 =>
                           Word(mem', junk, last'.ret + k)
                               = Word(mem, junk, last'.ptr + k)
                 /\ last'.ret # last'.ptr =>
                       last'.was <= ClearLow3(Word(mem', junk,
                                                   last'.ret - WORD_SIZE))
                                    - WORD_SIZE]_vars

\* C10: after every operation every free block has a size that is a
\* multiple of 8 and at least 16, and its footer repeats the size of its
\* header.
C10_FootersAgree == fault = "ok" => FootersAgree(H)

\* C11: after every operation every node x of the 16 lists, a list head or
\* a free block, has next_link(prev_link(x)) = x and prev_link(next_link(x))
\* = x, and both its links are offsets inside the heap.
C11_LinksWellFormed == fault = "ok" => LinksWellFormed(H)

\* The second call on a fresh heap was allocate(16), and the block the
\* caller held before it came from allocate(16) as well.
TwoAllocates ==
    /\ calls = 2
    /\ last.op = "malloc"
    /\ last.size = 16
    /\ last.ret # NULL
    /\ BagCardinality(held) = 2
    /\ \A r \in BagToSet(held) : r.size = 16

\* C12 as the spec has it: on a fresh heap a = allocate(16) followed by
\* b = allocate(16) gives b = a + 16.
C12_SecondIsSixteenOn ==
    TwoAllocates =>
        \A r \in BagToSet(held (-) Held(last.ret, 16)) : last.ret = r.ptr + 16

\* C12, amended: on a fresh heap a = allocate(16) followed by
\* b = allocate(16) gives b = a + 24, the size of the block of a request
\* of 16 bytes, and a = 136.
C12_SecondIsBlockSizeOn ==
    TwoAllocates =>
        /\ fault = "ok"
        /\ \A r \in BagToSet(held (-) Held(last.ret, 16)) :
              /\ r.ptr = FIRST_BLOCK
              /\ last.ret = r.ptr + 24

\* Two blocks of allocate(16) are held after two calls, at different offsets.
C12_TwoHeld ==
    /\ TwoAllocates
    /\ fault = "ok"
    /\ Cardinality({r.ptr : r \in BagToSet(held)}) = 2

\* C13: when zeroed_allocate(k, n) returns a pointer that is not null the
\* call has not failed, the pointer is that of an allocated block whose
\* payload holds k * n bytes, those bytes are all zero, and every word
\* outside the payload of that block is what allocate(k * n) alone leaves.
C13_CallocZeroes ==
    [][(last'.op = "calloc" /\ last'.ret # NULL)
          => LET m == mm_malloc(H, last'.size, last'.sbrk # "refused")
                 payload == get_size(m.h, m.ptr) - WORD_SIZE
                 whole == last'.size - (last'.size % WORD_SIZE)
                 rest == last'.size % WORD_SIZE
             IN  /\ fault' = "ok"
                 /\ m.ptr = last'.ret
                 /\ Bit(Word(mem', junk, last'.ret - WORD_SIZE), ALLOCATED) = 1
                 /\ ULe(last'.size, payload)
                 /\ \A k \in 0 .. whole - WORD_SIZE :
                       k % WORD_SIZE = 0 => Word(mem', junk, last'.ret + k) = 0
                 /\ rest > 0 =>
                       Word(mem', junk, last'.ret + whole) % (256 ^ rest) = 0
                 /\ \A a \in DOMAIN mem' \cup DOMAIN m.h.mem :
                       (a < last'.ret \/ a >= last'.ret + payload) =>
                           Word(mem', junk, a) = Word(m.h.mem, junk, a)]_vars

\* The call has left the heap, the heap end pointer and the provider's
\* break as they were, and has not asked the provider.
Untouched ==
    /\ mem' = mem
    /\ heap_last_ptr' = heap_last_ptr
    /\ mem_brk' = mem_brk
    /\ fault' = "ok"
    /\ last'.sbrk = "none"

\* The call has left the machine in state h.
LeavesState(h) ==
    /\ mem' = h.mem
    /\ heap_last_ptr' = h.heap_last_ptr
    /\ mem_brk' = h.mem_brk
    /\ fault' = h.fault
    /\ last'.sbrk = h.sbrk

\* The call has returned r.ptr and left the machine in state r.h.
ReturnsAs(r) == last'.ret = r.ptr /\ LeavesState(r.h)

\* C14: allocate(0) returns null and free(null) returns, both leaving every
\* word of the heap and the heap end pointer unchanged without calling the
\* provider; reallocate(null, n) returns what allocate(n) returns and
\* leaves the state allocate(n) leaves, under the same answer of the
\* provider; reallocate(p, 0), p not null, returns null and leaves the
\* state free(p) leaves.
C14_NullAndZero ==
    [][/\ (last'.op = "malloc" /\ last'.size = 0)
             => (last'.ret = NULL /\ Untouched)
       /\ (last'.op = "free" /\ last'.ptr = NULL) => Untouched
       /\ (last'.op = "realloc" /\ last'.ptr = NULL)
             => ReturnsAs(mm_malloc(H, last'.size, last'.sbrk # "refused"))
       /\ (last'.op = "realloc" /\ last'.ptr # NULL /\ last'.size = 0)
             => (last'.ret = NULL /\ LeavesState(mm_free(H, last'.ptr)))]_vars

\* allocate(0) has returned null to a caller that holds a block.
C14_ZeroRefused ==
    /\ last.op = "malloc"
    /\ last.size = 0
    /\ last.ret = NULL
    /\ fault = "ok"
    /\ held # EmptyBag

\* The step is reallocate(p, n), p not null and n > 0, on a block that
\* align(n) does not fit.
ReallocGrows ==
    /\ last'.op = "realloc"
    /\ last'.ptr # NULL
    /\ last'.size # 0
    /\ ULt(get_size(H, last'.ptr), align_size(last'.size))

\* C15: reallocate(p, n) with new = align(n) > old = size(p) returns p when
\* (a) the block b after p is free and size(b) >= new - old, or (b) b is
\* the trailing sentinel and the provider grants new - old bytes.  Then
\* size(p) = new when at least 16 bytes of b are left over or the heap was
\* grown by new - old, size(p) = old + size(b) when b was taken whole, and
\* the block after p has prev_allocated = 1.
C15_GrowsInPlace ==
    [][ReallocGrows =>
          LET ptr == last'.ptr
              old == get_size(H, ptr)
              new == align_size(last'.size)
              need == USub(new, old)
              b == get_back(H, ptr)
              fits == ~is_allocated(H, b) /\ ULe(need, get_size(H, b))
              grown == ~fits /\ b = heap_last_ptr /\ last'.sbrk = "granted"
              now == ClearLow3(Word(mem', junk, ptr - WORD_SIZE))
          IN  (fits \/ grown) =>
                  /\ last'.ret = ptr
                  /\ fault' = "ok"
                  /\ (fits /\ ~ULt(USub(get_size(H, b), need), 16)) => now = new
                  /\ (fits /\ ULt(USub(get_size(H, b), need), 16))
                        => now = UAdd(old, get_size(H, b))
                  /\ grown => (now = new /\ heap_last_ptr' = heap_last_ptr + need)
                  /\ Bit(Word(mem', junk, ptr + now - WORD_SIZE),
                         FORWARD_ALLOCATED) = 1]_vars

\* reallocate has grown a block in place by taking in the whole of the free
\* block after it: the block is larger than the request asked for.
C15_TookWhole ==
    /\ last.op = "realloc"
    /\ last.ptr # NULL
    /\ last.ret = last.ptr
    /\ fault = "ok"
    /\ last.was < align_size(last.size)
    /\ align_size(last.size) < get_size(H, last.ptr)

\* C16: allocate(user_size) asks the provider only when no free block of
\* the heap has size >= align(user_size); when there is such a block it
\* returns one without asking; and when the list of class(align(user_size))
\* holds a block that is large enough it returns the first such block in
\* list order.
C16_ProviderOnlyWhenNoFit ==
    [][(last'.op = "malloc" /\ last'.size # 0) =>
          LET aligned_size == align_size(last'.size)
              enough == {p \in FreeBlocks(H) : ULe(aligned_size, get_size(H, p))}
              first == FirstFit(H, ListOf(H, get_index(aligned_size)), aligned_size)
          IN  /\ last'.sbrk # "none" => enough = {}
              /\ enough # {} => last'.ret \in enough
              /\ first # NULL => last'.ret = first]_vars

\* C17: for the aligned size n of every allocate, the search
\* find_fit_in_index_th_list(n, class(n)) comes to an end without reading
\* an entry of the head table outside it (the index does not wrap below 0),
\* and it returns null when no list from class(n) down to class 12 holds a
\* block of size >= n.
C17_SearchStaysInTable ==
    [][(last'.op = "malloc" /\ last'.size # 0) =>
          LET aligned_size == align_size(last'.size)
              index == get_index(aligned_size)
              r == find_fit_in_index_th_list(H, aligned_size, index)
              scanned == {i \in Classes : i <= index \/ i = 12}
          IN  /\ r.h.fault = "ok"
              /\ (\A i \in scanned :
                     FirstFit(H, ListOf(H, i), aligned_size) = NULL)
                    => r.ptr = NULL]_vars

\* Size n is in the range of class i: [2^(31-i), 2^(32-i)) for i = 13 .. 27,
\* and everything from 2^low on for class 12.
InClass(i, n, low) ==
    IF i = 12 THEN ~ULt(n, 2 ^ low)
    ELSE ~ULt(n, 2 ^ (31 - i)) /\ ULt(n, 2 ^ (32 - i))

\* After insert(p, n): n is in the range of exactly one class, p is in the
\* list of that class and of no other, and min_size[i] <= n < max_size[i]
\* for that class and no other.
InsertedByClass(low) ==
    last.op = "insert" =>
        /\ fault = "ok"
        /\ Cardinality({i \in Classes : InClass(i, last.size, low)}) = 1
        /\ \A i \in Classes :
              /\ InClass(i, last.size, low)
                    <=> last.ptr \in Range(ListOf(H, i))
              /\ InClass(i, last.size, low)
                    <=> (/\ ULe(list_min_block_size(i), last.size)
                         /\ ULt(last.size, list_max_block_size(i)))

\* C18 as the spec has it: class i covers [2^(31-i), 2^(32-i)) for
\* i = 13 .. 27 and class 12 covers [2^20, 2^32 - 1]; insert(p, n) links p
\* into the list of the one class that covers n, and the tables min_size
\* and max_size describe the same ranges.
C18_ClassTwelveFrom2_20 == InsertedByClass(20)

\* C18, amended: as above with class 12 covering [2^19, 2^32 - 1].
C18_ClassTwelveFrom2_19 == InsertedByClass(19)

\* insert has linked a block of at least 2^19 and less than 2^20 bytes into
\* list 12.
C18_InsertedBelow2_20 ==
    /\ last.op = "insert"
    /\ fault = "ok"
    /\ last.size >= 2 ^ 19
    /\ last.size < 2 ^ 20
    /\ last.ptr \in Range(ListOf(H, 12))

\* C19: when reallocate(p, n), p not null and n > 0, returns null, the
\* header of p is what it was and has allocated = 1, and every payload word
\* of p is what it was.
C19_FailedReallocKeepsBlock ==
    [][(last'.op = "realloc" /\ last'.ptr # NULL /\ last'.size # 0
        /\ last'.ret = NULL /\ fault' = "ok")
          => /\ Word(mem', junk, last'.ptr - WORD_SIZE)
                    = Word(mem, junk, last'.ptr - WORD_SIZE)
             /\ Bit(Word(mem', junk, last'.ptr - WORD_SIZE), ALLOCATED) = 1
             /\ \A k \in 0 .. get_size(H, last'.ptr) - 2 * WORD_SIZE :
                   k % WORD_SIZE = 0 =>
                       Word(mem', junk, last'.ptr + k)
                           = Word(mem, junk, last'.ptr + k)]_vars

\* C20: a call of allocate, free or reallocate changes no payload word of
\* a block q the caller holds before the call and still holds after it,
\* other than the block the call was given: the words of
\* [q, q + size(q) - 4) are what they were.
C20_LivePayloadUntouched ==
    [][(last'.op \in {"malloc", "free", "realloc"} /\ fault' = "ok") =>
          \A r \in BagToSet(held) \cap BagToSet(held') :
              r.ptr # last'.ptr =>
                  \A k \in 0 .. get_size(H, r.ptr) - 2 * WORD_SIZE :
                      k % WORD_SIZE = 0 =>
                          Word(mem', junk, r.ptr + k) = Word(mem, junk, r.ptr + k)]_vars

=============================================================================
